---- MODULE Spec2Model ----
(***************************************************************************)
(* express-error-handler: the error-classification / dispatch state        *)
(* machine and the graceful-shutdown subsystem.                            *)
(*                                                                         *)
(* The repository holds two variants of the module: src/error-handler.js   *)
(* (isMaintenance, maintenanceState, synchronous static branch) and        *)
(* src/unnamed/part_002 (shouldContinue, maintenance(options), static      *)
(* branch deferred to the stream's 'end' event).  The variable `variant'   *)
(* says which of the two is loaded; everything the two share (close,       *)
(* exit, isClientError, renderDefault, send) is modelled once.             *)
(*                                                                         *)
(* One errorHandler invocation is synchronous JavaScript, so it is one     *)
(* action; the ordered list of the calls it makes on its collaborators     *)
(* (res, the custom handler, the server, process, setTimeout) is kept in   *)
(* last.events.  Collaborators return normally in this specification.      *)
(***************************************************************************)
EXTENDS Integers, Sequences, FiniteSets, TLC

VARIABLES
  variant,   \* which source variant is loaded
  o,         \* the handler's options after mixIn({}, defaults, options)
  env,       \* process.env: ERR_HANDLER_MAINT_ENABLED, ERR_HANDLER_MAINT_RETRYAFTER
  policy,    \* maintenance._maintEnabled / createHandler.maintenance.status
  userFlag,  \* what an overriding enabled/status predicate returns now
  timers,    \* setTimeout callbacks armed and not yet fired
  streams,   \* read streams opened by sendFile and not yet ended
  exits,     \* process.exit calls that took effect
  last,      \* the most recent call into the module and what it did
  userRetryAfter,  \* what an overriding retryAfter function returns now
  middlewares,     \* the maintenance middleware instances created so far
  pending,         \* errors a middleware passed to next(), not yet handled
  built,           \* how many handlers createHandler has built
  routes           \* the routes httpError has returned so far

\* The part of the state that only the maintenance API touches.
maintVars == <<userRetryAfter, middlewares, pending, built, routes>>

vars == <<variant, o, env, policy, userFlag, timers, streams, exits, last,
          maintVars>>

----------------------------------------------------------------------------
(* Bounds *)

MaxTimers == 2
MaxStreams == 1
MaxMiddlewares == 2
MaxPending == 1
MaxBuilt == 2
MaxRoutes == 2
MaxCalls == 2

----------------------------------------------------------------------------
(* Values *)

VariantA == "error-handler.js"
VariantB == "part_002"

\* The key 'default' of options.views and options.static.
DefaultKey == -1

\* A falsy / undefined status (err.status absent, res.statusCode unset).
NoStatus == 0

\* Statuses an error may carry.
ErrStatuses == {NoStatus, 399, 400, 404, 499, 500, 503, 511, 600}

\* Status codes already set on the response when the handler is called.
ResStatusCodes == {NoStatus, 200, 404}

\* The errors that carry a message of their own: the error's status and the
\* status code already set on the response.
WithMessage ==
  { [status |-> 404, code |-> NoStatus],
    [status |-> 500, code |-> 404],
    [status |-> NoStatus, code |-> 404] }

\* Statuses for which a deployment registers a handler, view or static file.
ConfigKeys == {404, 500, 503}

\* How the server handle's close() behaves when it is called.
DrainBehaviours == {"async", "sync", "throws"}

\* Representations res.format may select.
AcceptValues == {"json", "text", "html"}

NoOpt == [k \in {} |-> 0]

Unset == [defined |-> FALSE, str |-> <<>>]

Str(s) == [defined |-> TRUE, str |-> s]

EnvFlagValues ==
  { Unset, Str(<<"T","R","U","E">>), Str(<<"f","a","l","s","e">>) }

----------------------------------------------------------------------------
(* Strings *)

UpperCase ==
  <<"A","B","C","D","E","F","G","H","I","J","K","L","M",
    "N","O","P","Q","R","S","T","U","V","W","X","Y","Z">>

LowerCase ==
  <<"a","b","c","d","e","f","g","h","i","j","k","l","m",
    "n","o","p","q","r","s","t","u","v","w","x","y","z">>

toLowerCase(s) ==
  [i \in 1..Len(s) |->
     IF \E j \in 1..26 : UpperCase[j] = s[i]
     THEN LowerCase[CHOOSE j \in 1..26 : UpperCase[j] = s[i]]
     ELSE s[i]]

RECURSIVE trimLeft(_)
trimLeft(s) ==
  IF s # <<>> /\ Head(s) = " " THEN trimLeft(Tail(s)) ELSE s

RECURSIVE trimRight(_)
trimRight(s) ==
  IF s # <<>> /\ s[Len(s)] = " "
  THEN trimRight(SubSeq(s, 1, Len(s) - 1))
  ELSE s

trim(s) == trimRight(trimLeft(s))

\* '' + value
StringOf(v) ==
  IF v.defined THEN v.str ELSE <<"u","n","d","e","f","i","n","e","d">>

----------------------------------------------------------------------------
(* Status Classifier *)

\* Mutants of isClientError: a boundary taken strictly.
isClientError_lowerOpen(status) == status > 400 /\ status <= 499

isClientError_upperOpen(status) == status >= 400 /\ status < 499

isClientError(status) == status >= 400 /\ status <= 499

\* createHandler.clientError: the deprecated alias, which applies
\* this.isClientError to its arguments.
clientError(status) == isClientError(status)

----------------------------------------------------------------------------
(* Maintenance Oracle *)

\* The values for which the default predicate of src/error-handler.js
\* reports "disabled".
negative ==
  { <<"0">>, <<"f","a","l","s","e">>, <<"n","o">>,
    <<"u","n","d","e","f","i","n","e","d">> }

\* maintenanceState() without an argument: reads the environment.
maintenanceState(value) ==
  value.defined /\ value.str # <<>> /\ toLowerCase(value.str) \notin negative

\* Mutant of status: the value is not trimmed.
status_noTrim(value) ==
  toLowerCase(StringOf(value)) = <<"t","r","u","e">>

\* The default status() of part_002's maintenance(options).
status(value) ==
  toLowerCase(trim(StringOf(value))) = <<"t","r","u","e">>

\* Mutant of CallEnabled: what the predicate said to the last request is
\* kept and said again.
CallEnabled_cached(fn) ==
  IF last.fn = "middleware" THEN last.oracle
  ELSE CASE fn = "maintenanceState" -> maintenanceState(env.MAINT_ENABLED)
         [] fn = "status" -> status(env.MAINT_ENABLED)
         [] fn = "override" -> userFlag
         [] OTHER -> FALSE

\* Mutant of CallEnabled: an override reads the environment as well.
CallEnabled_overrideReadsEnv(fn) ==
  CASE fn = "maintenanceState" -> maintenanceState(env.MAINT_ENABLED)
    [] fn = "status" -> status(env.MAINT_ENABLED)
    [] fn = "override" -> userFlag /\ status(env.MAINT_ENABLED)
    [] OTHER -> FALSE

\* Calling a predicate held in o.maintenance.enabled, in
\* maintenance._maintEnabled or in createHandler.maintenance.status.
CallEnabled(fn) ==
  CASE fn = "maintenanceState" -> maintenanceState(env.MAINT_ENABLED)
    [] fn = "status" -> status(env.MAINT_ENABLED)
    [] fn = "override" -> userFlag
    [] OTHER -> FALSE

\* Mutant of isMaintenance: the predicate is tested for, but not called.
isMaintenance_notCalled(cfg, st) ==
  st = 503 /\ cfg.maintenance.enabled # "undefined"

\* isMaintenance of src/error-handler.js.
isMaintenance(cfg, st) ==
  /\ st = 503
  /\ cfg.maintenance.enabled # "undefined"
  /\ CallEnabled(cfg.maintenance.enabled)

\* shouldContinue of part_002.
shouldContinue(st) == isClientError(st) \/ st = 503

----------------------------------------------------------------------------
(* Retry-After *)

Digits == <<"0","1","2","3","4","5","6","7","8","9">>

IsDigit(c) == \E d \in 1..10 : Digits[d] = c

DigitValue(c) == (CHOOSE d \in 1..10 : Digits[d] = c) - 1

RECURSIVE DigitPrefix(_, _)
DigitPrefix(s, acc) ==
  IF s # <<>> /\ IsDigit(Head(s))
  THEN DigitPrefix(Tail(s), acc * 10 + DigitValue(Head(s)))
  ELSE acc

\* parseInt(value, 10): leading blanks, an optional sign, then the longest
\* prefix of digits; NaN when there is no digit.
parseInt(value) ==
  LET s == trimLeft(StringOf(value))
      signed == s # <<>> /\ Head(s) \in {"-", "+"}
      body == IF signed THEN Tail(s) ELSE s
      n == DigitPrefix(body, 0)
  IN IF body = <<>> \/ ~IsDigit(Head(body))
     THEN [nan |-> TRUE, n |-> 0]
     ELSE [nan |-> FALSE, n |-> IF signed /\ Head(s) = "-" THEN 0 - n ELSE n]

\* The date strings Date.parse recognises here, with their timestamps (in
\* seconds; Date.parse gives milliseconds).
Date1999 ==
  <<"F","r","i",","," ","3","1"," ","D","e","c"," ","1","9","9","9"," ",
    "2","3",":","5","9",":","5","9"," ","G","M","T">>

DateEpoch ==
  <<"T","h","u",","," ","0","1"," ","J","a","n"," ","1","9","7","0"," ",
    "0","0",":","0","0",":","0","0"," ","G","M","T">>

KnownDates ==
  { [str |-> Date1999, sec |-> 946684799],
    [str |-> DateEpoch, sec |-> 0] }

\* Date.parse(value): the timestamp, NaN for anything that is not a date.
DateParse(value) ==
  IF \E d \in KnownDates : d.str = StringOf(value)
  THEN [nan |-> FALSE,
        n |-> (CHOOSE d \in KnownDates : d.str = StringOf(value)).sec]
  ELSE [nan |-> TRUE, n |-> 0]

Seconds(n) == [type |-> "number", num |-> n, str |-> <<>>]

DateString(s) == [type |-> "string", num |-> 0, str |-> s]

\* What a function returns when it returns nothing.
Undefined == [type |-> "undefined", num |-> 0, str |-> <<>>]

\* JavaScript's truthiness of such a value.
Truthy(v) ==
  CASE v.type = "number" -> v.num # 0
    [] v.type = "string" -> v.str # <<>>
    [] OTHER -> FALSE

fallback == 3600

\* Mutant of maintenanceRetryAfter: zero and negative numbers are kept.
maintenanceRetryAfter_keepsNonPositive(value) ==
  LET parsed == parseInt(value)
      date == DateParse(value)
  IN IF ~parsed.nan /\ parsed.n # 0
     THEN Seconds(parsed.n)
     ELSE IF ~date.nan /\ date.n # 0 /\ value.defined /\ value.str # <<>>
          THEN DateString(value.str)
          ELSE Seconds(fallback)

\* maintenanceRetryAfter of src/error-handler.js.
maintenanceRetryAfter(value) ==
  LET parsed == parseInt(value)
      result == IF ~parsed.nan /\ parsed.n <= 0
                THEN [nan |-> FALSE, n |-> fallback]
                ELSE parsed
      date == DateParse(value)
  IN IF ~result.nan /\ result.n # 0
     THEN Seconds(result.n)
     ELSE IF ~date.nan /\ date.n # 0 /\ value.defined /\ value.str # <<>>
          THEN DateString(value.str)
          ELSE Seconds(fallback)

\* Mutant of retryAfter: zero and negative numbers are kept.
retryAfter_keepsNonPositive(value) ==
  LET envSetting == Str(trim(StringOf(value)))
      trySeconds == parseInt(envSetting)
      date == DateParse(envSetting)
  IN IF ~trySeconds.nan
     THEN Seconds(trySeconds.n)
     ELSE IF ~date.nan /\ date.n # 0 /\ envSetting.str # <<>>
          THEN DateString(envSetting.str)
          ELSE Seconds(fallback)

\* The default retryAfter() of part_002's maintenance(options).
retryAfter(value) ==
  LET envSetting == Str(trim(StringOf(value)))
      trySeconds == parseInt(envSetting)
      seconds == IF ~trySeconds.nan /\ trySeconds.n <= 0
                 THEN [nan |-> FALSE, n |-> fallback]
                 ELSE trySeconds
      date == DateParse(envSetting)
  IN IF ~seconds.nan /\ seconds.n # 0
     THEN Seconds(seconds.n)
     ELSE IF ~date.nan /\ date.n # 0 /\ envSetting.str # <<>>
          THEN DateString(envSetting.str)
          ELSE Seconds(fallback)

\* Calling the function held in o.maintenance.retryAfter or closed over by
\* a maintenance middleware; an override returns what the deployment's
\* function returns (14400 in the tests).
OverrideRetryAfter == 14400

CallRetryAfter(fn) ==
  CASE fn = "maintenanceRetryAfter" -> maintenanceRetryAfter(env.MAINT_RETRYAFTER)
    [] fn = "retryAfter" -> retryAfter(env.MAINT_RETRYAFTER)
    [] fn = "override" -> userRetryAfter
    [] OTHER -> Undefined

\* maintHeader of src/error-handler.js: no header when retryAfter is not a
\* function or returns a falsy value.
maintHeader(cfg) ==
  IF cfg.maintenance.retryAfter = "undefined"
  THEN NoOpt
  ELSE LET value == CallRetryAfter(cfg.maintenance.retryAfter)
       IN IF Truthy(value) THEN [RetryAfter |-> value] ELSE NoOpt

----------------------------------------------------------------------------
(* Maintenance middleware *)

\* The error a middleware hands to next(); NoStatus when it hands none.
nextCall(st) == [op |-> "next", err |-> st]

\* getEnabled of conditional503 (src/error-handler.js): the enabled
\* predicate of the handler built last when it is a function, else the
\* default one.
getEnabled ==
  IF policy # "undefined" THEN policy ELSE "maintenanceState"

\* Mutant of conditional503: the error is forwarded whatever getEnabled says.
conditional503_always(inst) ==
  << nextCall(503) >>

\* conditional503(req, res, next) of src/error-handler.js.
conditional503(inst) ==
  IF CallEnabled(getEnabled) THEN << nextCall(503) >> ELSE << nextCall(NoStatus) >>

\* Mutant of maintenanceMiddleware: the error is forwarded without the
\* Retry-After header being set.
maintenanceMiddleware_noHeader(inst) ==
  IF CallEnabled(inst.status)
  THEN << nextCall(503) >>
  ELSE << nextCall(NoStatus) >>

\* maintenanceMiddleware(req, res, next) of part_002; `inst' holds the
\* status and retryAfter functions the instance closes over.
maintenanceMiddleware(inst) ==
  IF CallEnabled(inst.status)
  THEN << [op |-> "retryAfter()", fn |-> inst.retryAfter],
          [op |-> "res.header",
           headers |-> [RetryAfter |-> CallRetryAfter(inst.retryAfter)]],
          nextCall(503) >>
  ELSE << nextCall(NoStatus) >>

\* Mutant of maintenance_status: falls back to the default predicate.
maintenance_status_fallsBack(fn) ==
  CallEnabled(IF fn # "undefined" THEN fn ELSE "maintenanceState")

\* maintenance.status() of src/error-handler.js and
\* createHandler.maintenance.status() of part_002, called without argument;
\* `fn' is maintenance._maintEnabled, respectively the installed function.
maintenance_status(fn) ==
  fn # "undefined" /\ CallEnabled(fn)

\* What assigning a boolean to process.env.ERR_HANDLER_MAINT_ENABLED stores.
StateString(state) ==
  IF state THEN Str(<<"t","r","u","e">>) ELSE Str(<<"f","a","l","s","e">>)

\* Mutant of maintenance_status_set: no courtesy throw, the default setter
\* is called whatever predicate is installed.
maintenance_status_set_noThrow(fn, state) ==
  IF variant = VariantA
  THEN [threw |-> FALSE, value |-> StateString(state),
        ret |-> maintenanceState(StateString(state))]
  ELSE [threw |-> FALSE, value |-> env.MAINT_ENABLED,
        ret |-> maintenance_status(fn)]

\* The status query called with a state argument.  src/error-handler.js:
\* throws when an enabled predicate other than maintenanceState is
\* installed, else maintenanceState(state) stores the state in the
\* environment and returns the enabled value.  part_002: the installed
\* status function takes no argument and ignores the one it is given.
\* `value' is what the environment variable holds after the call.
maintenance_status_set(fn, state) ==
  IF variant = VariantA
  THEN IF fn # "undefined" /\ fn # "maintenanceState"
       THEN [threw |-> TRUE, value |-> env.MAINT_ENABLED, ret |-> FALSE]
       ELSE [threw |-> FALSE, value |-> StateString(state),
             ret |-> maintenanceState(StateString(state))]
  ELSE [threw |-> FALSE, value |-> env.MAINT_ENABLED,
        ret |-> maintenance_status(fn)]

----------------------------------------------------------------------------
(* Shutdown Coordinator *)

\* process.exit(code); `by' names the place that called it.  The call never
\* returns: nothing that follows it in the same call stack is executed.
processExit(code, by) == [op |-> "process.exit", code |-> code, by |-> by]

\* var exit = o.shutdown || function exit(o) { setTimeout(..., o.timeout) }
\* Mutant of exit: the override is ignored and the timer always armed.
exit_ignoresOverride(cfg) ==
  << [op |-> "setTimeout", delay |-> cfg.timeout,
      exitStatus |-> cfg.exitStatus] >>

exit(cfg) ==
  IF cfg.shutdown
  THEN << [op |-> "o.shutdown", o |-> cfg] >>
  ELSE << [op |-> "setTimeout", delay |-> cfg.timeout,
           exitStatus |-> cfg.exitStatus] >>

\* close(o, exit): the calls it makes, in order.  With a server handle the
\* try/finally exits the process as soon as server.close() has returned or
\* thrown (or earlier, from the callback, if close() calls it synchronously),
\* so exit(o) is reached only without a closable server.
\* Mutant of close: process.exit returns, so that a drain callback run
\* inside server.close() is followed by the exit of the finally block.
close_exitReturns(cfg, drain) ==
  IF cfg.server = "closable"
  THEN << [op |-> "server.close"] >> \o
       ( IF drain = "sync"
         THEN << processExit(cfg.exitStatus, "drainCallback") >>
         ELSE << >> ) \o
       << processExit(cfg.exitStatus, "finally") >>
  ELSE exit(cfg)

close(cfg, drain) ==
  IF cfg.server = "closable"
  THEN << [op |-> "server.close"] >> \o
       ( IF drain = "sync"
         THEN << processExit(cfg.exitStatus, "drainCallback") >>
         ELSE << processExit(cfg.exitStatus, "finally") >> )
  ELSE exit(cfg)

----------------------------------------------------------------------------
(* Response Resolver and Default Responder *)

\* An error object with its status and message properties (NoStatus and ""
\* when it has none), and the response: absent, or present with the status
\* code already set on it.
Error(st, msg) == [status |-> st, message |-> msg]

NoResponse == [present |-> FALSE, statusCode |-> NoStatus]

Response(code) == [present |-> TRUE, statusCode |-> code]

\* Mutant of deriveStatus: the response's status code is read first.
deriveStatus_resFirst(err, res) ==
  IF res.present /\ res.statusCode # NoStatus THEN res.statusCode
  ELSE err.status

\* status = err && err.status || res && res.statusCode
deriveStatus(err, res) ==
  IF err.status # NoStatus THEN err.status
  ELSE IF res.present THEN res.statusCode
  ELSE NoStatus

\* sendFile(staticFile, res): opens a read stream and pipes it to res.
sendFile(key) == << [op |-> "sendFile", key |-> key] >>

\* statusCodes = require('http').STATUS_CODES, on the statuses used here; a
\* code without a standard reason phrase reads as undefined.
statusCodes(code) ==
  CASE code = 400 -> "Bad Request"
    [] code = 404 -> "Not Found"
    [] code = 405 -> "Method Not Allowed"
    [] code = 500 -> "Internal Server Error"
    [] code = 503 -> "Service Unavailable"
    [] code = 511 -> "Network Authentication Required"
    [] OTHER -> "undefined"

\* Mutant of httpError: the message is left undefined when the status has
\* no reason phrase.
httpError_noFallback(st, message) ==
  Error(st, IF message # "" THEN message ELSE statusCodes(st))

\* httpError(status, message): the error the returned route closes over;
\* err.message = message || statusCodes[status] || 'Internal server error'.
httpError(st, message) ==
  Error(st, IF message # "" THEN message
            ELSE IF statusCodes(st) # "undefined" THEN statusCodes(st)
            ELSE "Internal server error")

\* function httpErr(req, res, next) { next(err); }
httpErr(err) == << [op |-> "next", err |-> err] >>

\* Mutant of bodyMessage: the reason phrase is used even when the error has
\* a message.
bodyMessage_phraseOnly(statusCode, err) == statusCodes(statusCode)

\* message: err.message || statusCodes[statusCode]
bodyMessage(statusCode, err) ==
  IF err.message # "" THEN err.message ELSE statusCodes(statusCode)

\* send(statusCode, err, res, o): builds the body {status, message}, passes
\* it through the serializer, sets the status, then sends the body.  The
\* serializer is "o.serializer" (the configured one), "identity" (the body
\* object itself) or "message" (the function returning o.message).
send(statusCode, err, serializer) ==
  << [op |-> "res.status", code |-> statusCode],
     [op |-> "res.send",
      body |-> IF serializer = "message"
               THEN [kind |-> "message",
                     message |-> bodyMessage(statusCode, err)]
               ELSE [kind |-> serializer, status |-> statusCode,
                     message |-> bodyMessage(statusCode, err)]] >>

\* Mutant of renderDefault: the response's status code is left as it is.
renderDefault_statusNotSet(cfg, err, statusCode, accept) ==
  IF DefaultKey \in cfg.views
  THEN << [op |-> "res.render", key |-> DefaultKey] >>
  ELSE IF DefaultKey \in cfg.static
  THEN sendFile(DefaultKey)
  ELSE << [op |-> "res.format", type |-> accept],
          [op |-> "res.send",
           body |-> [kind |-> "message",
                     message |-> bodyMessage(statusCode, err)]] >>

\* renderDefault(statusCode): sets the status code, then the default view,
\* the default static file or the body send builds.
renderDefault(cfg, err, statusCode, accept) ==
  << [op |-> "res.statusCode=", code |-> statusCode] >> \o
  ( IF DefaultKey \in cfg.views
    THEN << [op |-> "res.render", key |-> DefaultKey] >>
    ELSE IF DefaultKey \in cfg.static
    THEN sendFile(DefaultKey)
    ELSE ( IF cfg.framework = "restify"
           THEN send(statusCode, err,
                     IF cfg.serializer THEN "o.serializer" ELSE "identity")
           ELSE << >> ) \o
         ( IF cfg.framework = "express"
           THEN << [op |-> "res.format", type |-> accept] >> \o
                send(statusCode, err,
                     IF accept = "json"
                     THEN (IF cfg.serializer THEN "o.serializer"
                           ELSE "identity")
                     ELSE "message")
           ELSE << >> ) )

\* Mutant of Continues: a status outside 400..599 continues as well.
Continues_outOfRange(cfg, st) ==
  \/ st < 400
  \/ st >= 600
  \/ IF variant = VariantA
     THEN isClientError(st) \/ isMaintenance(cfg, st)
     ELSE shouldContinue(st)

\* The continue/shutdown predicate of the loaded variant.
Continues(cfg, st) ==
  IF variant = VariantA
  THEN isClientError(st) \/ isMaintenance(cfg, st)
  ELSE shouldContinue(st)

\* Mutant of resumeOrClose: only the first shutdown of an instance is
\* carried out.
resumeOrClose_firstOnly(cfg, st, drain) ==
  IF ~Continues(cfg, st) /\ timers = << >> THEN close(cfg, drain) ELSE << >>

\* Mutant of resumeOrClose: the negation is dropped.
resumeOrClose_inverted(cfg, st, drain) ==
  IF Continues(cfg, st) THEN close(cfg, drain) ELSE << >>

resumeOrClose(cfg, st, drain) ==
  IF ~Continues(cfg, st) THEN close(cfg, drain) ELSE << >>

\* Mutant of strategy: a status from 500 on always gets the default
\* responder.
strategy_defaultFrom500(cfg, st) ==
  IF st >= 500 THEN "default"
  ELSE IF st \in cfg.handlers THEN "handler"
  ELSE IF st \in cfg.views THEN "view"
  ELSE IF st \in cfg.static THEN "static"
  ELSE "default"

\* Mutant of strategy: the view is looked up before the handler.
strategy_viewFirst(cfg, st) ==
  IF st \in cfg.views THEN "view"
  ELSE IF st \in cfg.handlers THEN "handler"
  ELSE IF st \in cfg.static THEN "static"
  ELSE "default"

\* The branch errorHandler takes for a status when a response is present:
\* the first of custom handler, custom view, custom static file that is
\* registered for the status, else the default responder.
strategy(cfg, st) ==
  IF st \in cfg.handlers THEN "handler"
  ELSE IF st \in cfg.views THEN "view"
  ELSE IF st \in cfg.static THEN "static"
  ELSE "default"

\* Mutant of serverError: with a default static file the shutdown is left
\* to the 'end' listener of its stream.
serverError_awaitsEnd(cfg, err, st, accept, drain) ==
  renderDefault(cfg, err, 500, accept) \o
  ( IF DefaultKey \in cfg.static /\ DefaultKey \notin cfg.views
    THEN << [op |-> "stream.on", event |-> "end"] >>
    ELSE close(cfg, drain) )

\* Mutant of serverError: the default responder is given the error's status.
serverError_keepsStatus(cfg, err, st, accept, drain) ==
  renderDefault(cfg, err, st, accept) \o close(cfg, drain)

\* The last branch of errorHandler: "For all other errors, deliver a 500
\* error and shut down."
serverError(cfg, err, st, accept, drain) ==
  renderDefault(cfg, err, 500, accept) \o close(cfg, drain)

\* Mutant of setMaintHeader: the header is set whatever the status.
setMaintHeader_anyStatus(cfg, st) ==
  IF variant = VariantA
  THEN << [op |-> "res.header", headers |-> maintHeader(cfg)] >>
  ELSE << >>

\* if (isMaintenance(status)) { res.header(maintHeader()); } -- only in
\* src/error-handler.js; the handler of part_002 sets no header.
setMaintHeader(cfg, st) ==
  IF variant = VariantA /\ isMaintenance(cfg, st)
  THEN << [op |-> "res.header", headers |-> maintHeader(cfg)] >>
  ELSE << >>

\* errorHandler from "Always set a response status" on (in
\* src/error-handler.js from the Retry-After header on): the calls made when
\* there is a response, in order.
respond(cfg, err, st, accept, drain) ==
  LET branch == strategy(cfg, st) IN
    setMaintHeader(cfg, st) \o
    << [op |-> "res.status", code |-> st] >> \o
    ( CASE branch = "handler" ->
             << [op |-> "handler", key |-> st] >> \o
             resumeOrClose(cfg, st, drain)
        [] branch = "view" ->
             << [op |-> "res.render", key |-> st] >> \o
             resumeOrClose(cfg, st, drain)
        [] branch = "static" ->
             sendFile(st) \o
             ( IF variant = VariantA
               THEN resumeOrClose(cfg, st, drain)
               ELSE << [op |-> "stream.on", event |-> "end"] >> )
        [] OTHER ->
             IF Continues(cfg, st)
             THEN renderDefault(cfg, err, st, accept)
             ELSE serverError(cfg, err, st, accept, drain) )

\* Mutant of errorHandler: the response is used without the test for its
\* absence.
errorHandler_ignoresAbsentRes(cfg, err, res, accept, drain) ==
  respond(cfg, err, deriveStatus(err, res), accept, drain)

\* errorHandler(err, req, res, next): the calls it makes, in order.
errorHandler(cfg, err, res, accept, drain) ==
  LET st == deriveStatus(err, res) IN
  IF ~res.present
  THEN resumeOrClose(cfg, st, drain)
  ELSE respond(cfg, err, st, accept, drain)

\* An argument of the returned function other than the error and the
\* response (the request, the route, next): an object none of whose
\* properties read here is defined.
Object(kind) ==
  [kind |-> kind, status |-> NoStatus, message |-> "", present |-> TRUE,
   statusCode |-> NoStatus]

\* The arguments the framework passes to the function createHandler
\* returned: express calls (err, req, res, next), restify calls
\* (req, res, route, err).
Arguments(cfg, err, res) ==
  IF cfg.framework = "restify"
  THEN << Object("req"), res, Object("route"), err >>
  ELSE << err, Object("req"), res, Object("next") >>

\* Mutant of restifyAdapter: the arguments are passed on in the order they
\* arrive in.
restifyAdapter_sameOrder(cfg, args, accept, drain) ==
  errorHandler(cfg, args[1], args[3], accept, drain)

\* function (req, res, route, err) { return errorHandler(err, req, res); }
restifyAdapter(cfg, args, accept, drain) ==
  errorHandler(cfg, args[4], args[2], accept, drain)

\* The function createHandler returns, called with the framework's
\* arguments.
returned(cfg, args, accept, drain) ==
  IF cfg.framework = "restify"
  THEN restifyAdapter(cfg, args, accept, drain)
  ELSE errorHandler(cfg, args[1], args[3], accept, drain)

----------------------------------------------------------------------------
(* Construction *)

\* `defaults' of the loaded variant; only src/error-handler.js has the
\* maintenance entry.
defaults(v) ==
  [ handlers |-> {}, views |-> {}, static |-> {},
    timeout |-> 3 * 1000, exitStatus |-> 1,
    server |-> "undefined", shutdown |-> FALSE, serializer |-> FALSE,
    framework |-> "express",
    maintenance |->
      IF v = VariantA
      THEN [enabled |-> "maintenanceState",
            retryAfter |-> "maintenanceRetryAfter"]
      ELSE [enabled |-> "undefined", retryAfter |-> "undefined"] ]

\* Mutant of mixIn: the options given are ignored.
mixIn_defaultsOnly(d, options) == d

\* mout/object/mixIn({}, defaults, options): a shallow copy in which the
\* keys options has replace those of defaults.
mixIn(d, options) ==
  [k \in DOMAIN d |-> IF k \in DOMAIN options THEN options[k] ELSE d[k]]

\* The options given to createHandler.  A deployment registers handlers,
\* views and static files for at most one status besides the 'default' key.
CustomOptions ==
  { h @@ w @@ f :
      h \in {NoOpt} \cup {[handlers |-> {k}] : k \in ConfigKeys},
      w \in {NoOpt} \cup
            {[views |-> x] : x \in (SUBSET (ConfigKeys \cup {DefaultKey})) \ {{}}},
      f \in {NoOpt} \cup
            {[static |-> x] : x \in (SUBSET (ConfigKeys \cup {DefaultKey})) \ {{}}} }

CustomStatuses(opt) ==
  ( (IF "handlers" \in DOMAIN opt THEN opt.handlers ELSE {}) \cup
    (IF "views" \in DOMAIN opt THEN opt.views ELSE {}) \cup
    (IF "static" \in DOMAIN opt THEN opt.static ELSE {}) ) \ {DefaultKey}

Customisations ==
  {x \in CustomOptions : Cardinality(CustomStatuses(x)) <= 1}

ServerOptions == {NoOpt, [server |-> "noClose"], [server |-> "closable"]}

ShutdownOptions == {NoOpt, [shutdown |-> TRUE]}

ExitOptions == {NoOpt, [exitStatus |-> 11]}

ResponderOptions ==
  { a @@ b :
      a \in {NoOpt, [framework |-> "restify"]},
      b \in {NoOpt, [serializer |-> TRUE]} }

\* A custom timeout, with and without a shutdown override and a custom exit
\* status.
TimeoutOptions ==
  { [timeout |-> 4 * 1000] @@ a @@ b :
      a \in ShutdownOptions, b \in ExitOptions }

\* restify with a custom handler, view or static file.
RestifyOptions ==
  { [framework |-> "restify"] @@ c :
      c \in { [handlers |-> {404}], [handlers |-> {500}], [views |-> {500}],
              [static |-> {404}], [views |-> {DefaultKey}] } }

MaintenanceOptions(v) ==
  IF v = VariantA
  THEN { NoOpt,
         [maintenance |-> [enabled |-> "override", retryAfter |-> "override"]],
         [maintenance |-> [enabled |-> "undefined", retryAfter |-> "undefined"]] }
  ELSE { NoOpt }

\* The status for which the customisations are crossed with the maintenance
\* overrides.
MaintenanceStatus == {503}

\* Six families of options: every customisation of a status outside 503
\* with and without a closable server and a shutdown override; every server,
\* override and exit status with every maintenance override; every
\* customisation of 503 with every maintenance override; every framework
\* and serializer with and without a shutdown override; restify with a
\* custom handler, view or static file; a custom timeout.
Options(v) ==
  { c @@ a @@ b :
      c \in {x \in Customisations : CustomStatuses(x) \cap MaintenanceStatus = {}},
      a \in {NoOpt, [server |-> "closable"]},
      b \in ShutdownOptions }
  \cup
  { a @@ b @@ c @@ m :
      a \in ServerOptions, b \in ShutdownOptions, c \in ExitOptions,
      m \in MaintenanceOptions(v) }
  \cup
  { c @@ m :
      c \in {x \in Customisations : CustomStatuses(x) = MaintenanceStatus},
      m \in MaintenanceOptions(v) }
  \cup
  { r @@ b : r \in ResponderOptions, b \in ShutdownOptions }
  \cup
  RestifyOptions
  \cup
  TimeoutOptions

\* createHandler(options)
createHandler(v, options) == mixIn(defaults(v), options)

----------------------------------------------------------------------------
(* State *)

Terminated == exits # << >>

\* What the Maintenance Oracle reports now: o.maintenance.enabled for a
\* handler of src/error-handler.js, createHandler.maintenance.status() for
\* part_002.
Oracle ==
  IF variant = VariantA
  THEN o.maintenance.enabled # "undefined" /\ CallEnabled(o.maintenance.enabled)
  ELSE CallEnabled(policy)

NoCall == [fn |-> "none", status |-> NoStatus, hasRes |-> FALSE,
           oracle |-> FALSE, events |-> << >>]

Init ==
  /\ variant \in {VariantA, VariantB}
  /\ o \in {createHandler(variant, opt) : opt \in Options(variant)}
  /\ policy \in IF variant = VariantA
                THEN {o.maintenance.enabled}
                ELSE {"false", "status", "override"}
  /\ env \in [MAINT_ENABLED : EnvFlagValues, MAINT_RETRYAFTER : {Unset}]
  /\ userFlag \in BOOLEAN
  /\ ((variant = VariantB /\ policy # "false") \/ env.MAINT_ENABLED # Unset =>
        (o.handlers \cup o.views \cup o.static) \ {DefaultKey}
          \subseteq MaintenanceStatus)
  /\ (env.MAINT_ENABLED # Unset => policy \in {"maintenanceState", "status"})
  /\ (userFlag => policy = "override")
  /\ timers = << >>
  /\ streams = << >>
  /\ exits = << >>
  /\ last = NoCall
  /\ userRetryAfter = Seconds(OverrideRetryAfter)
  /\ middlewares = << >>
  /\ pending = << >>
  /\ built = 1
  /\ routes = << >>

\* The effect of a list of calls on the process: timers armed, streams
\* opened (with or without an 'end' listener), process exits.
Armed(ev) ==
  SelectSeq(ev, LAMBDA e : e.op = "setTimeout")

Exited(ev) ==
  SelectSeq(ev, LAMBDA e : e.op = "process.exit")

\* `status' is the status the 'end' listener closes over, when there is one.
Opened(ev, st) ==
  LET idx == {i \in 1..Len(ev) : ev[i].op = "sendFile"} IN
  IF idx = {} THEN << >>
  ELSE LET i == CHOOSE j \in idx : TRUE IN
       LET listens == i < Len(ev) /\ ev[i + 1].op = "stream.on" IN
       << [key |-> ev[i].key, onEnd |-> listens,
           status |-> IF listens THEN st ELSE NoStatus] >>

\* Mutant of Apply: arming a timer replaces the timers armed before.
Apply_rearms(ev, st) ==
  /\ Len(timers) + Len(Armed(ev)) <= MaxTimers
  /\ Len(streams) + Len(Opened(ev, st)) <= MaxStreams
  /\ timers' = IF Armed(ev) # << >> THEN Armed(ev) ELSE timers
  /\ streams' = streams \o Opened(ev, st)
  /\ exits' = exits \o Exited(ev)

Apply(ev, st) ==
  /\ Len(timers) + Len(Armed(ev)) <= MaxTimers
  /\ Len(streams) + Len(Opened(ev, st)) <= MaxStreams
  /\ timers' = timers \o Armed(ev)
  /\ streams' = streams \o Opened(ev, st)
  /\ exits' = exits \o Exited(ev)

Remove(seq, i) == SubSeq(seq, 1, i - 1) \o SubSeq(seq, i + 1, Len(seq))

----------------------------------------------------------------------------
(* Actions *)

\* The errors and responses the handler is called with: the response is
\* absent or present; the status code already set on it is read only when
\* the error carries no status.
Requests ==
  { [err |-> Error(e, ""), res |-> NoResponse] : e \in ErrStatuses }
  \cup
  { [err |-> Error(e, ""), res |-> Response(NoStatus)] : e \in ErrStatuses }
  \cup
  { [err |-> Error(NoStatus, ""), res |-> Response(c)] : c \in ResStatusCodes }
  \cup
  { [err |-> Error(m.status, "Custom"), res |-> Response(m.code)] :
      m \in WithMessage }

\* The representation res.format selects, when the call reaches res.format.
Accepts(cfg, req) ==
  LET st == deriveStatus(req.err, req.res) IN
  IF /\ req.res.present
     /\ st \notin cfg.handlers \cup cfg.views \cup cfg.static
     /\ DefaultKey \notin cfg.views \cup cfg.static
     /\ cfg.framework = "express"
  THEN AcceptValues
  ELSE {"json"}

\* How server.close() may behave, when there is one to call.
Drains(cfg) ==
  IF cfg.server = "closable" THEN DrainBehaviours ELSE {"async"}

\* An error reaches the handler built by createHandler.
HandleError ==
  /\ ~Terminated
  /\ built >= 1
  /\ \E req \in Requests,
        drain \in Drains(o) :
     \E accept \in Accepts(o, req) :
       LET ev == returned(o, Arguments(o, req.err, req.res), accept, drain)
           st == deriveStatus(req.err, req.res)
       IN /\ Apply(ev, st)
          /\ last' = [fn |-> "errorHandler", status |-> st,
                      hasRes |-> req.res.present, oracle |-> Oracle,
                      events |-> ev, err |-> req.err, res |-> req.res]
  /\ UNCHANGED <<variant, o, env, policy, userFlag, maintVars>>

\* A read stream opened by sendFile emits 'end'; in part_002 the static
\* branch listens for it and then takes the continue/shutdown decision.
StreamEnd ==
  /\ ~Terminated
  /\ \E i \in 1..Len(streams), drain \in Drains(o) :
       LET s == streams[i]
           ev == IF s.onEnd THEN resumeOrClose(o, s.status, drain) ELSE << >>
       IN /\ Len(timers) + Len(Armed(ev)) <= MaxTimers
          /\ timers' = timers \o Armed(ev)
          /\ exits' = exits \o Exited(ev)
          /\ streams' = Remove(streams, i)
          /\ last' = IF s.onEnd
                     THEN [fn |-> "stream.end", status |-> s.status,
                           hasRes |-> TRUE, oracle |-> Oracle, events |-> ev]
                     ELSE last
  /\ UNCHANGED <<variant, o, env, policy, userFlag, maintVars>>

\* Timers fire in the order of their deadlines: a timer armed earlier with
\* a delay that is not longer fires first.
Earliest(i) ==
  \A j \in 1..(i - 1) : timers[j].delay > timers[i].delay

\* A timer armed by exit(o) fires: process.exit(o.exitStatus).
TimerFire ==
  /\ ~Terminated
  /\ \E i \in 1..Len(timers) :
       /\ Earliest(i)
       /\ exits' = Append(exits, processExit(timers[i].exitStatus, "timer"))
       /\ timers' = Remove(timers, i)
  /\ UNCHANGED <<variant, o, env, policy, userFlag, streams, last, maintVars>>

Next ==
  \/ HandleError
  \/ StreamEnd
  \/ TimerFire

Spec == Init /\ [][Next]_vars

\* A read stream opened by sendFile emits 'error' (the file is missing or
\* cannot be read) and never emits 'end'.  sendFile registers no 'error'
\* listener and errorHandler registers none, so no code of the module runs.
StreamError ==
  /\ ~Terminated
  /\ \E i \in 1..Len(streams) :
       /\ streams' = Remove(streams, i)
       /\ last' = [fn |-> "stream.error", status |-> streams[i].status,
                   hasRes |-> TRUE, oracle |-> Oracle, events |-> << >>]
  /\ UNCHANGED <<variant, o, env, policy, userFlag, timers, exits, maintVars>>

\* Error handling with the streams' outcomes left open: a stream may end,
\* fail, or stay open for ever; an armed timer does fire.
InitLive ==
  /\ Init
  /\ env.MAINT_ENABLED = Unset
  /\ ~userFlag
  /\ o.framework = "express"
  /\ ~o.serializer

NextLive ==
  \/ HandleError
  \/ StreamEnd
  \/ StreamError
  \/ TimerFire

SpecLive == InitLive /\ [][NextLive]_vars /\ WF_vars(TimerFire)

\* Calls in which something fails: the custom handler throws, res.render
\* throws, or the handler is called without an error value.  errorHandler
\* has no try/catch of its own, so an exception thrown by a call it makes
\* ends the invocation at that call and reaches the caller.
Failures == {"handler throws", "res.render throws", "err undefined"}

Throw(by) == [op |-> "throw", by |-> by]

\* The calls made up to and including call i, which throws.
Interrupted(ev, i) == SubSeq(ev, 1, i) \o << Throw(ev[i].op) >>

Calls(ev, op) == \E i \in 1..Len(ev) : ev[i].op = op

FirstOf(ev, op) ==
  CHOOSE i \in 1..Len(ev) :
    ev[i].op = op /\ \A j \in 1..(i - 1) : ev[j].op # op

\* The calls of an invocation in which `fail' happens, from those of the
\* invocation in which nothing fails.  With err undefined, send throws a
\* TypeError when it reads err.message, before its res.status and res.send.
failing(ev, fail) ==
  CASE fail = "handler throws" /\ Calls(ev, "handler") ->
         Interrupted(ev, FirstOf(ev, "handler"))
    [] fail = "res.render throws" /\ Calls(ev, "res.render") ->
         Interrupted(ev, FirstOf(ev, "res.render"))
    [] fail = "err undefined" /\ Calls(ev, "res.send") ->
         SubSeq(ev, 1, FirstOf(ev, "res.send") - 2) \o << Throw("send") >>
    [] OTHER -> ev

\* The errors of the failing calls; an undefined error has no status of its
\* own, so the status is read from the response.
FailingRequests(fail) ==
  IF fail = "err undefined"
  THEN { [err |-> Error(NoStatus, ""), res |-> r] :
           r \in {NoResponse, Response(NoStatus), Response(404)} }
  ELSE { [err |-> Error(e, ""), res |-> Response(NoStatus)] :
           e \in {404, 500, 503} }

\* An error reaches the handler and something fails on the way.
HandleFailing ==
  /\ ~Terminated
  /\ built >= 1
  /\ \E fail \in Failures, drain \in Drains(o) :
     \E req \in FailingRequests(fail) :
     \E accept \in Accepts(o, req) :
       LET ev == failing(returned(o, Arguments(o, req.err, req.res),
                                  accept, drain), fail)
           st == deriveStatus(req.err, req.res)
       IN /\ Apply(ev, st)
          /\ last' = [fn |-> "errorHandler", status |-> st,
                      hasRes |-> req.res.present, oracle |-> Oracle,
                      events |-> ev, err |-> req.err, res |-> req.res,
                      fail |-> fail]
  /\ UNCHANGED <<variant, o, env, policy, userFlag, maintVars>>

NextFailing ==
  \/ HandleFailing
  \/ StreamEnd
  \/ TimerFire

SpecFailing == Init /\ [][NextFailing]_vars

\* The two classifier functions called on their own, on a freshly required
\* module with a handler built from the default options.
ApiStatuses == 395..505

InitApi ==
  /\ Init
  /\ o = createHandler(variant, NoOpt)
  /\ policy \in {"maintenanceState", "false"}

CallIsClientErrorApi ==
  /\ \E s \in ApiStatuses :
       last' = [fn |-> "isClientError", status |-> s, hasRes |-> FALSE,
                oracle |-> Oracle, events |-> << >>,
                ret |-> isClientError(s)]
  /\ UNCHANGED <<variant, o, env, policy, userFlag, timers, streams, exits, maintVars>>

CallClientErrorApi ==
  /\ \E s \in ApiStatuses :
       last' = [fn |-> "clientError", status |-> s, hasRes |-> FALSE,
                oracle |-> Oracle,
                events |-> << [op |-> "console.log"] >>,
                ret |-> clientError(s)]
  /\ UNCHANGED <<variant, o, env, policy, userFlag, timers, streams, exits, maintVars>>

NextApi == CallIsClientErrorApi \/ CallClientErrorApi

SpecApi == InitApi /\ [][NextApi]_vars

\* httpError called on its own and the routes it returns invoked: statuses
\* with and without a reason phrase, no status, with and without a message.
HttpErrorStatuses == {NoStatus, 404, 405, 500, 799}

HttpErrorMessages == {"", "Custom"}

\* errorHandler.httpError(status, [message])
CreateRoute ==
  /\ Len(routes) < MaxRoutes
  /\ \E st \in HttpErrorStatuses, message \in HttpErrorMessages :
       /\ routes' = Append(routes, [status |-> st, message |-> message,
                                    err |-> httpError(st, message),
                                    calls |-> 0])
       /\ last' = [fn |-> "httpError", status |-> st, hasRes |-> FALSE,
                   oracle |-> Oracle, events |-> << >>]
  /\ UNCHANGED <<variant, o, env, policy, userFlag, timers, streams, exits,
                 userRetryAfter, middlewares, pending, built>>

\* A request reaches a route httpError returned.
InvokeRoute ==
  /\ \E i \in 1..Len(routes) :
       /\ routes[i].calls < MaxCalls
       /\ routes' = [routes EXCEPT ![i].calls = @ + 1]
       /\ last' = [fn |-> "httpErr", status |-> routes[i].err.status,
                   hasRes |-> TRUE, oracle |-> Oracle,
                   events |-> httpErr(routes[i].err), route |-> i]
  /\ UNCHANGED <<variant, o, env, policy, userFlag, timers, streams, exits,
                 userRetryAfter, middlewares, pending, built>>

NextRoutes == CreateRoute \/ InvokeRoute

SpecRoutes == InitApi /\ [][NextRoutes]_vars

\* The two default predicates called on their own, for the values the
\* environment variables may hold.
EnabledValues ==
  { Unset, Str(<<>>),
    Str(<<"T","R","U","E">>), Str(<<"t","r","u","e">>),
    Str(<<" ","T","r","u","e"," ">>),
    Str(<<"f","a","l","s","e">>), Str(<<"F","A","L","S","E">>),
    Str(<<"1">>), Str(<<"0">>), Str(<<"y","e","s">>), Str(<<"n","o">>),
    Str(<<"t","r","u","e","!">>) }

RetryAfterValues ==
  { Unset, Str(<<>>),
    Str(<<"7","2","0","0">>), Str(<<" ","7","2","0","0">>), Str(<<"1">>),
    Str(Date1999), Str(DateEpoch),
    Str(<<"-","5">>), Str(<<"0">>), Str(<<"a","b","c">>) }

InitEnv ==
  /\ variant \in {VariantA, VariantB}
  /\ o = createHandler(variant, NoOpt)
  /\ policy = IF variant = VariantA THEN "maintenanceState" ELSE "status"
  /\ env \in [MAINT_ENABLED : EnabledValues, MAINT_RETRYAFTER : RetryAfterValues]
  /\ userFlag = FALSE
  /\ timers = << >>
  /\ streams = << >>
  /\ exits = << >>
  /\ last = NoCall
  /\ userRetryAfter = Seconds(OverrideRetryAfter)
  /\ middlewares = << >>
  /\ pending = << >>
  /\ built = 1
  /\ routes = << >>

\* The default enabled predicate: maintenanceState() of
\* src/error-handler.js, status() of part_002.
CallDefaultEnabled ==
  /\ last' = [fn |-> "enabled", status |-> NoStatus, hasRes |-> FALSE,
              oracle |-> Oracle, events |-> << >>,
              ret |-> IF variant = VariantA
                      THEN maintenanceState(env.MAINT_ENABLED)
                      ELSE status(env.MAINT_ENABLED)]
  /\ UNCHANGED <<variant, o, env, policy, userFlag, timers, streams, exits,
                 maintVars>>

\* The default retryAfter function: maintenanceRetryAfter() of
\* src/error-handler.js, retryAfter() of part_002.
CallDefaultRetryAfter ==
  /\ last' = [fn |-> "retryAfter", status |-> NoStatus, hasRes |-> FALSE,
              oracle |-> Oracle, events |-> << >>,
              ret |-> IF variant = VariantA
                      THEN maintenanceRetryAfter(env.MAINT_RETRYAFTER)
                      ELSE retryAfter(env.MAINT_RETRYAFTER)]
  /\ UNCHANGED <<variant, o, env, policy, userFlag, timers, streams, exits,
                 maintVars>>

NextEnv == CallDefaultEnabled \/ CallDefaultRetryAfter

SpecEnv == InitEnv /\ [][NextEnv]_vars

----------------------------------------------------------------------------
(* The maintenance API in an application: handlers are built, maintenance
   middleware is created and run, the environment changes, and the handler
   handles what a middleware forwarded. *)

\* Options of the handler the application installs: with or without a
\* static page for 503, with a shutdown function as in the tests.
MaintAppOptions(v) ==
  { c @@ [shutdown |-> TRUE] @@ m :
      c \in {NoOpt, [static |-> {503}]},
      m \in MaintenanceOptions(v) }

\* What an overriding retryAfter function may return.
UserRetryAfterValues == {Seconds(OverrideRetryAfter), Seconds(0), Undefined}

\* Values of ERR_HANDLER_MAINT_RETRYAFTER in the application.
AppRetryAfterValues == {Unset, Str(<<"-","5">>), Str(Date1999)}

\* The options given to createHandler.maintenance(options) of part_002.
InstallOptions ==
  { [status |-> "status", retryAfter |-> "retryAfter"],
    [status |-> "override", retryAfter |-> "override"] }

InitMaint ==
  /\ variant \in {VariantA, VariantB}
  /\ o \in {createHandler(variant, opt) : opt \in MaintAppOptions(variant)}
  /\ policy = IF variant = VariantA THEN "undefined" ELSE "false"
  /\ env \in [MAINT_ENABLED : EnvFlagValues, MAINT_RETRYAFTER : AppRetryAfterValues]
  /\ userFlag \in BOOLEAN
  /\ userRetryAfter \in UserRetryAfterValues
  /\ (userRetryAfter # Seconds(OverrideRetryAfter) => env.MAINT_RETRYAFTER = Unset)
  /\ timers = << >>
  /\ streams = << >>
  /\ exits = << >>
  /\ last = NoCall
  /\ middlewares = << >>
  /\ pending = << >>
  /\ built = 0
  /\ routes = << >>

\* createHandler(options) for the handler the application installs; in
\* src/error-handler.js it publishes its enabled predicate.
BuildHandler ==
  /\ ~Terminated
  /\ built = 0
  /\ built' = 1
  /\ policy' = IF variant = VariantA THEN o.maintenance.enabled ELSE policy
  /\ UNCHANGED <<variant, o, env, userFlag, timers, streams, exits, last,
                 userRetryAfter, middlewares, pending, routes>>

\* createHandler(options) called again, for a handler used elsewhere.
BuildAnotherHandler ==
  /\ ~Terminated
  /\ built >= 1
  /\ built < MaxBuilt
  /\ built' = built + 1
  /\ \E m \in MaintenanceOptions(variant) :
       policy' = IF variant = VariantA
                 THEN createHandler(variant, m).maintenance.enabled
                 ELSE policy
  /\ UNCHANGED <<variant, o, env, userFlag, timers, streams, exits, last,
                 userRetryAfter, middlewares, pending, routes>>

\* Mutant of InstallMaintenance: the exposed status function is not updated.
InstallMaintenance_keepsStatus ==
  /\ ~Terminated
  /\ Len(middlewares) < MaxMiddlewares
  /\ \E opt \in InstallOptions :
       middlewares' = Append(middlewares, opt)
  /\ UNCHANGED <<variant, o, env, policy, userFlag, timers, streams, exits,
                 last, userRetryAfter, pending, built, routes>>

\* maintenance(message) of src/error-handler.js returns a middleware that
\* reads maintenance._maintEnabled when it runs;
\* createHandler.maintenance(options) of part_002 returns a middleware that
\* closes over its status and retryAfter functions, and installs status as
\* createHandler.maintenance.status.
InstallMaintenance ==
  /\ ~Terminated
  /\ Len(middlewares) < MaxMiddlewares
  /\ IF variant = VariantA
     THEN /\ middlewares' = Append(middlewares,
                                   [status |-> "_maintEnabled",
                                    retryAfter |-> "undefined"])
          /\ policy' = policy
     ELSE \E opt \in InstallOptions :
            /\ middlewares' = Append(middlewares, opt)
            /\ policy' = opt.status
  /\ UNCHANGED <<variant, o, env, userFlag, timers, streams, exits, last,
                 userRetryAfter, pending, built, routes>>

\* The deployment assigns process.env.ERR_HANDLER_MAINT_ENABLED.
SetEnv ==
  /\ ~Terminated
  /\ \E value \in EnvFlagValues :
       /\ value # env.MAINT_ENABLED
       /\ env' = [env EXCEPT !.MAINT_ENABLED = value]
  /\ UNCHANGED <<variant, o, policy, userFlag, timers, streams, exits, last,
                 maintVars>>

\* The status query, without argument.
StatusQuery ==
  /\ ~Terminated
  /\ last' = [fn |-> "maintenance.status", status |-> NoStatus,
              hasRes |-> FALSE, oracle |-> Oracle, events |-> << >>,
              ret |-> maintenance_status(policy), consulted |-> policy,
              installed |-> Len(middlewares), built |-> built]
  /\ UNCHANGED <<variant, o, env, policy, userFlag, timers, streams, exits,
                 maintVars>>

\* The status query with a state argument (true or false).
StatusSet ==
  /\ ~Terminated
  /\ \E state \in BOOLEAN :
       LET r == maintenance_status_set(policy, state) IN
       /\ env' = [env EXCEPT !.MAINT_ENABLED = r.value]
       /\ last' = [fn |-> "maintenance.status(state)", status |-> NoStatus,
                   hasRes |-> FALSE, oracle |-> Oracle, events |-> << >>,
                   arg |-> state, threw |-> r.threw, ret |-> r.ret,
                   consulted |-> policy,
                   before |-> env.MAINT_ENABLED, after |-> r.value]
  /\ UNCHANGED <<variant, o, policy, userFlag, timers, streams, exits,
                 maintVars>>

\* A request reaches a maintenance middleware instance of the application,
\* whose error handler has been built.
RunMiddleware ==
  /\ ~Terminated
  /\ built >= 1
  /\ \E i \in 1..Len(middlewares) :
       LET inst == middlewares[i]
           ev == IF variant = VariantA
                 THEN conditional503(inst)
                 ELSE maintenanceMiddleware(inst)
           err == ev[Len(ev)].err
           headers == IF \E k \in 1..Len(ev) : ev[k].op = "res.header"
                      THEN ev[CHOOSE k \in 1..Len(ev) : ev[k].op = "res.header"].headers
                      ELSE NoOpt
           consulted == IF variant = VariantA THEN getEnabled ELSE inst.status
       IN /\ err # NoStatus => Len(pending) < MaxPending
          /\ pending' = IF err # NoStatus
                        THEN Append(pending, [status |-> err, headers |-> headers,
                                              inst |-> inst,
                                              consulted |-> consulted])
                        ELSE pending
          /\ last' = [fn |-> "middleware", status |-> err, hasRes |-> TRUE,
                      oracle |-> CallEnabled(consulted),
                      events |-> ev, inst |-> inst, consulted |-> consulted,
                      prev |-> IF last.fn = "middleware" /\ last.inst = inst
                               THEN last.status
                               ELSE DefaultKey]
  /\ UNCHANGED <<variant, o, env, policy, userFlag, timers, streams, exits,
                 userRetryAfter, middlewares, built, routes>>

\* The application's error handler handles the error a middleware
\* forwarded; the response carries the headers the middleware set.
HandleForwarded ==
  /\ ~Terminated
  /\ built >= 1
  /\ pending # << >>
  /\ \E drain \in Drains(o) :
       LET p == Head(pending)
           req == [err |-> Error(p.status, ""),
                   res |-> Response(NoStatus)]
       IN \E accept \in Accepts(o, req) :
            LET ev == errorHandler(o, req.err, req.res, accept, drain) IN
            /\ Apply(ev, p.status)
            /\ last' = [fn |-> "errorHandler", status |-> p.status,
                        hasRes |-> TRUE, oracle |-> Oracle, events |-> ev,
                        err |-> req.err, res |-> req.res,
                        headers |-> p.headers, inst |-> p.inst,
                        consulted |-> p.consulted]
  /\ pending' = Tail(pending)
  /\ UNCHANGED <<variant, o, env, policy, userFlag, userRetryAfter,
                 middlewares, built, routes>>

NextMaint ==
  \/ BuildHandler
  \/ BuildAnotherHandler
  \/ InstallMaintenance
  \/ SetEnv
  \/ StatusQuery
  \/ RunMiddleware
  \/ HandleForwarded
  \/ StreamEnd

SpecMaint == InitMaint /\ [][NextMaint]_vars

\* The maintenance API on its own: handlers built, middleware created, the
\* environment assigned, the status queried and set.
NextStatus ==
  \/ BuildHandler
  \/ BuildAnotherHandler
  \/ InstallMaintenance
  \/ SetEnv
  \/ StatusQuery
  \/ StatusSet

SpecStatus == InitMaint /\ [][NextStatus]_vars

\* The application with its maintenance middleware, whose error handler
\* handles the errors of the routes as well as those the middleware forwards.
NextHeader ==
  \/ BuildHandler
  \/ InstallMaintenance
  \/ SetEnv
  \/ RunMiddleware
  \/ HandleForwarded
  \/ HandleError
  \/ StreamEnd

\* The retry-after sources are left at one value each: the header's value
\* plays no part in who sets it.
InitHeader ==
  /\ InitMaint
  /\ userRetryAfter = Seconds(OverrideRetryAfter)
  /\ env.MAINT_RETRYAFTER = Unset

SpecHeader == InitHeader /\ [][NextHeader]_vars

----------------------------------------------------------------------------
(* Properties *)

\* The calls that belong to the Shutdown Coordinator.
ShutdownOps == {"server.close", "process.exit", "o.shutdown", "setTimeout"}

\* The call with which close(o, exit) starts, whichever way it goes.
CloseEntryOps == {"server.close", "o.shutdown", "setTimeout"}

Count(ev, ops) == Cardinality({i \in 1..Len(ev) : ev[i].op \in ops})

\* The status code the response is left with.
StatusOps == {"res.status", "res.statusCode="}

FinalStatus(ev) ==
  LET idx == {i \in 1..Len(ev) : ev[i].op \in StatusOps}
  IN IF idx = {} THEN NoStatus
     ELSE ev[CHOOSE i \in idx : \A j \in idx : j <= i].code

Handled == last.fn \in {"errorHandler", "stream.end"}

\* C1: handling an error whose derived status is in 400..499 never invokes
\* the Shutdown Coordinator, whatever is configured: no shutdown override
\* call, no server drain call, no timer armed, no process exit.
C1_ClientErrorNeverShutsDown ==
  (Handled /\ last.status >= 400 /\ last.status <= 499)
    => Count(last.events, ShutdownOps) = 0

C1_Witness ==
  /\ last.fn = "errorHandler"
  /\ last.status = 404
  /\ last.hasRes
  /\ o.server = "closable"
  /\ o.shutdown
  /\ 404 \in o.handlers

Maintained(l) ==
  /\ Count(l.events, ShutdownOps) = 0
  /\ FinalStatus(l.events) = 503

C4_IsClientErrorRange ==
  (last.fn \in {"isClientError", "clientError"})
    => /\ last.ret <=> (last.status >= 400 /\ last.status <= 499)
       /\ last.fn = "isClientError" => last.events = << >>
       /\ timers = << >> /\ streams = << >> /\ exits = << >>

C4_Witness ==
  /\ last.fn = "clientError"
  /\ last.status = 499
  /\ last.ret

\* The number of calls of one kind made for the status itself (not for the
\* 'default' key).
CountFor(ev, op, st) ==
  Cardinality({i \in 1..Len(ev) : ev[i].op = op /\ ev[i].key = st})

\* C5: with a response present, each invocation executes exactly one
\* response strategy, chosen by the precedence custom handler > custom view >
\* custom static file > default responder for the error's exact status.
C5_OneStrategyByPrecedence ==
  (last.fn = "errorHandler" /\ last.hasRes) =>
    LET st == last.status
        h == CountFor(last.events, "handler", st)
        v == CountFor(last.events, "res.render", st)
        f == CountFor(last.events, "sendFile", st)
        d == Count(last.events, {"res.statusCode="})
    IN /\ h + v + f + d = 1
       /\ st \in o.handlers => h = 1
       /\ (st \notin o.handlers /\ st \in o.views) => v = 1
       /\ (st \notin o.handlers \cup o.views /\ st \in o.static) => f = 1
       /\ st \notin o.handlers \cup o.views \cup o.static => d = 1

C5_Witness ==
  /\ last.fn = "errorHandler"
  /\ last.hasRes
  /\ last.status = 404
  /\ 404 \in o.handlers \cap o.views \cap o.static
  /\ DefaultKey \in o.views
  /\ CountFor(last.events, "handler", 404) = 1

\* The Shutdown Coordinator was entered by the last call.
CloseEntered(l) == Count(l.events, CloseEntryOps) >= 1

\* C6 (as claimed): without a shutdown override and with a server that can
\* be drained, entering the Shutdown Coordinator does not terminate the
\* process: the only exits are those of the drain callback and of the timer.
C6_NoExitAtEntry ==
  (Handled /\ ~o.shutdown /\ o.server = "closable") =>
    \A i \in 1..Len(last.events) :
      last.events[i].op = "process.exit" => last.events[i].by = "drainCallback"

\* C7 (as claimed): without a shutdown override, every entry into the
\* Shutdown Coordinator arms the timeout timer, with or without a server
\* that can be drained.
C7_TimerArmedOnEveryEntry ==
  (Handled /\ ~o.shutdown /\ CloseEntered(last)) =>
    Count(last.events, {"setTimeout"}) = 1

RenderOps == {"res.statusCode=", "res.status", "res.format", "res.send",
              "res.render", "sendFile"}

\* The error falls to the last branch of errorHandler: a response is
\* present, nothing is registered for the status, and the status is neither
\* a client error nor a 503 that the loaded variant keeps.
Uncategorised(l) ==
  /\ l.fn = "errorHandler"
  /\ l.hasRes
  /\ l.status \notin o.handlers \cup o.views \cup o.static
  /\ ~(l.status >= 400 /\ l.status <= 499)
  /\ ~(l.status = 503 /\ (variant = VariantB \/ l.oracle))

\* C10: for an error that is neither a client error nor maintenance and has
\* no custom handler, view or static file, the default responder runs with
\* the status forced to 500 (the response status code is 500 and a body that
\* carries a status carries 500), and the Shutdown Coordinator is entered
\* once, after the response was produced.
C10_DefaultForcedTo500ThenShutdown ==
  Uncategorised(last) =>
    LET ev == last.events IN
    /\ Count(ev, {"res.statusCode="}) = 1
    /\ \A i \in 1..Len(ev) : ev[i].op = "res.statusCode=" => ev[i].code = 500
    /\ FinalStatus(ev) = 500
    /\ \A i \in 1..Len(ev) :
         (ev[i].op = "res.send" /\ ev[i].body.kind # "message")
           => ev[i].body.status = 500
    /\ Count(ev, CloseEntryOps) = 1
    /\ \A i, j \in 1..Len(ev) :
         (ev[i].op \in RenderOps /\ ev[j].op \in ShutdownOps) => i < j

C10_Witness ==
  /\ Uncategorised(last)
  /\ last.status = 511
  /\ \E i, j \in 1..Len(last.events) :
       /\ i < j
       /\ last.events[i].op = "res.send"
       /\ last.events[i].body.kind # "message"
       /\ last.events[i].body.status = 500
       /\ last.events[j].op \in CloseEntryOps

\* Values of ERR_HANDLER_MAINT_RETRYAFTER by what they denote.
PositiveIntegerStrings ==
  { [value |-> Str(<<"7","2","0","0">>), n |-> 7200],
    [value |-> Str(<<" ","7","2","0","0">>), n |-> 7200],
    [value |-> Str(<<"1">>), n |-> 1] }

HttpDates == { Str(Date1999), Str(DateEpoch) }

FallbackValues ==
  { Unset, Str(<<>>), Str(<<"-","5">>), Str(<<"0">>), Str(<<"a","b","c">>) }

SaysTrue(value) ==
  value \in { Str(<<"T","R","U","E">>), Str(<<"t","r","u","e">>),
              Str(<<" ","T","r","u","e"," ">>) }

C11_StaticDefersDecision ==
  (last.fn = "errorHandler" /\ last.hasRes
     /\ CountFor(last.events, "sendFile", last.status) = 1)
    => Count(last.events, ShutdownOps) = 0

\* The error was forwarded by a maintenance middleware.
Forwarded(l) == l.fn = "errorHandler" /\ "inst" \in DOMAIN l

\* C12 (as claimed): the handler that handles the 503 a maintenance
\* middleware forwarded never invokes the Shutdown Coordinator, whatever
\* happened to the environment and to the installed predicate in between.
C12_ForwardedNeverShutsDown ==
  /\ Forwarded(last) => Count(last.events, ShutdownOps) = 0
  /\ (last.fn = "stream.end" /\ last.status = 503)
       => Count(last.events, ShutdownOps) = 0

\* The Retry-After header the response ends up with: the one the handler
\* sets, else the one the middleware set.
ResponseRetryAfter(l) ==
  LET idx == {i \in 1..Len(l.events) :
                /\ l.events[i].op = "res.header"
                /\ "RetryAfter" \in DOMAIN l.events[i].headers}
  IN IF idx # {}
     THEN l.events[CHOOSE i \in idx : TRUE].headers.RetryAfter
     ELSE IF "RetryAfter" \in DOMAIN l.headers
          THEN l.headers.RetryAfter
          ELSE Undefined

\* C13: with overriding predicates in force (enabled returning true,
\* retryAfter returning 14400), the middleware forwards a 503 and the
\* response gets status 503, Retry-After 14400 and no shutdown, for every
\* value of the two environment variables.
C13_OverrideIndependentOfEnv ==
  (userFlag /\ userRetryAfter = Seconds(14400)) =>
    /\ (last.fn = "middleware" /\ last.consulted = "override")
         => /\ last.status = 503
            /\ variant = VariantB =>
                 \E i \in 1..Len(last.events) :
                   /\ last.events[i].op = "res.header"
                   /\ last.events[i].headers = [RetryAfter |-> Seconds(14400)]
    /\ ( /\ Forwarded(last)
         /\ last.consulted = "override"
         /\ variant = VariantA =>
              o.maintenance = [enabled |-> "override", retryAfter |-> "override"] )
         => /\ FinalStatus(last.events) = 503
            /\ ResponseRetryAfter(last) = Seconds(14400)
            /\ Count(last.events, ShutdownOps) = 0

C13_Witness ==
  /\ Forwarded(last)
  /\ last.consulted = "override"
  /\ env.MAINT_ENABLED = Str(<<"f","a","l","s","e">>)
  /\ env.MAINT_RETRYAFTER = Str(<<"-","5">>)
  /\ ResponseRetryAfter(last) = Seconds(14400)
  /\ FinalStatus(last.events) = 503

ExpectedDefaultRetryAfter ==
  CASE env.MAINT_RETRYAFTER = Str(Date1999) -> DateString(Date1999)
    [] OTHER -> Seconds(3600)

C15_DisabledPassesThrough ==
  (last.fn = "middleware" /\ ~last.oracle) =>
    /\ last.events = << nextCall(NoStatus) >>
    /\ last.status = NoStatus

C15_Witness ==
  /\ last.fn = "middleware"
  /\ ~last.oracle
  /\ last.consulted = "maintenanceState"
  /\ env.MAINT_ENABLED = Str(<<"f","a","l","s","e">>)
  /\ last.events = << nextCall(NoStatus) >>
  /\ pending = << >>

\* A Retry-After value a client can use.
ValidRetryAfter(v) ==
  \/ v.type = "number" /\ v.num > 0
  \/ v.type = "string" /\ v.str # << >>

\* The headers given to the res.header calls of a call.
HeaderCalls(l) ==
  {l.events[i].headers : i \in {k \in 1..Len(l.events) : l.events[k].op = "res.header"}}

\* The call produced a maintenance response: the middleware of part_002
\* forwarding its 503, the handler of src/error-handler.js classifying a
\* 503 as Maintenance.
MaintenanceResponse(l) ==
  \/ l.fn = "middleware" /\ l.oracle /\ variant = VariantB
  \/ Forwarded(l) /\ l.oracle /\ variant = VariantA

\* C17 (as claimed): every maintenance response carries a Retry-After
\* header whose value is a positive integer or a date string, whether the
\* value comes from the environment or from an overriding function.
C17_Original ==
  MaintenanceResponse(last) =>
    /\ HeaderCalls(last) # {}
    /\ \A h \in HeaderCalls(last) :
         "RetryAfter" \in DOMAIN h /\ ValidRetryAfter(h.RetryAfter)

\* The retryAfter function a maintenance response took its value from.
RetryAfterSource(l) ==
  IF variant = VariantB THEN l.inst.retryAfter ELSE o.maintenance.retryAfter

\* C17 (amended): with the default retryAfter function, every maintenance
\* response carries a Retry-After header whose value is a positive integer
\* or a date string; with an overriding function, part_002 sets the header
\* to whatever the function returns (zero and undefined included), and
\* src/error-handler.js sets it to what the function returns when that is
\* truthy and sets no Retry-After header otherwise, as it does when
\* o.maintenance.retryAfter is not a function.
C17_RetryAfterBySource ==
  MaintenanceResponse(last) =>
    /\ Cardinality(HeaderCalls(last)) = 1
    /\ \A h \in HeaderCalls(last) :
         CASE RetryAfterSource(last) \in {"retryAfter", "maintenanceRetryAfter"} ->
                "RetryAfter" \in DOMAIN h /\ ValidRetryAfter(h.RetryAfter)
           [] RetryAfterSource(last) = "override" /\ variant = VariantB ->
                h = [RetryAfter |-> userRetryAfter]
           [] RetryAfterSource(last) = "override" /\ variant = VariantA ->
                IF userRetryAfter = Seconds(OverrideRetryAfter)
                THEN h = [RetryAfter |-> userRetryAfter]
                ELSE h = NoOpt
           [] OTHER -> h = NoOpt

C17_Witness ==
  /\ MaintenanceResponse(last)
  /\ RetryAfterSource(last) \in {"retryAfter", "maintenanceRetryAfter"}
  /\ env.MAINT_RETRYAFTER = Str(<<"-","5">>)
  /\ HeaderCalls(last) = {[RetryAfter |-> Seconds(3600)]}

\* C19 (as claimed): before any maintenance middleware has been created, the
\* status query returns false, whatever the environment holds and whether or
\* not handlers have been built.
C19_Original ==
  (last.fn = "maintenance.status" /\ last.installed = 0) => ~last.ret

\* C19 (amended): in part_002 the status query returns false before any
\* maintenance middleware has been created, whatever the environment holds
\* and whether or not handlers have been built; in src/error-handler.js it
\* returns false before any handler has been built and while the handler
\* built last has no enabled function, whether or not a maintenance
\* middleware has been created, and otherwise it returns what the enabled
\* predicate of the handler built last returns.
C19_StatusBeforeInstall ==
  last.fn = "maintenance.status" =>
    /\ (variant = VariantB /\ last.installed = 0) => ~last.ret
    /\ (variant = VariantA /\ last.built = 0) => ~last.ret
    /\ (variant = VariantA /\ last.consulted = "undefined") => ~last.ret
    /\ (variant = VariantA /\ last.consulted = "override") => last.ret = userFlag

C19_Witness ==
  /\ last.fn = "maintenance.status"
  /\ variant = VariantB
  /\ last.installed = 0
  /\ last.built = 2
  /\ env.MAINT_ENABLED = Str(<<"T","R","U","E">>)
  /\ ~last.ret

\* What a middleware instance decides for a request arriving now.
Decides(inst) ==
  CallEnabled(IF variant = VariantA THEN getEnabled ELSE inst.status)

\* C20 (as claimed): the status query and every maintenance middleware
\* created so far decide alike.
C20_Original ==
  \A i \in 1..Len(middlewares) :
    Decides(middlewares[i]) = maintenance_status(policy)

\* C20 (amended): in part_002 the status query decides as the middleware
\* created last does, and each earlier middleware keeps deciding from the
\* functions it was created with; in src/error-handler.js every middleware
\* decides from the enabled predicate of the handler built last, as the
\* status query does, except that while there is no such predicate the
\* middleware falls back to the environment and the status query reports
\* false.
C20_StatusFollowsLastInstalled ==
  /\ (variant = VariantB /\ middlewares # << >>) =>
       /\ policy = middlewares[Len(middlewares)].status
       /\ Decides(middlewares[Len(middlewares)]) = maintenance_status(policy)
  /\ variant = VariantA =>
       \A i \in 1..Len(middlewares) :
         Decides(middlewares[i]) =
           IF policy # "undefined"
           THEN maintenance_status(policy)
           ELSE maintenanceState(env.MAINT_ENABLED)

C20_Witness ==
  /\ variant = VariantB
  /\ Len(middlewares) = 2
  /\ Decides(middlewares[1])
  /\ ~Decides(middlewares[2])
  /\ ~maintenance_status(policy)

\* The status query was called with a state argument.
SetCalled == last.fn = "maintenance.status(state)"

\* C21 (as claimed): the state-set call fails and changes nothing while an
\* overriding enabled predicate is installed; while the default predicate
\* is, it stores the state and returns the new enabled value.
C21_Original ==
  SetCalled =>
    /\ last.consulted = "override" => (last.threw /\ last.after = last.before)
    /\ last.consulted \in {"maintenanceState", "status"} =>
         /\ ~last.threw
         /\ last.after = StateString(last.arg)
         /\ last.ret = last.arg

\* C21 (amended): in src/error-handler.js the state-set call throws and
\* leaves the environment unchanged while an overriding enabled predicate
\* is installed, and otherwise (default predicate, or none) stores the
\* state in the environment and returns the new enabled value; in part_002
\* the status function ignores the argument: the call never throws, never
\* changes the environment and returns what the installed predicate
\* returns.
C21_SetStateByVariant ==
  SetCalled =>
    IF variant = VariantA
    THEN /\ last.consulted = "override" =>
              (last.threw /\ last.after = last.before)
         /\ last.consulted \in {"maintenanceState", "undefined"} =>
              /\ ~last.threw
              /\ last.after = StateString(last.arg)
              /\ last.ret = last.arg
    ELSE /\ ~last.threw
         /\ last.after = last.before
         /\ last.consulted = "override" => last.ret = userFlag
         /\ last.consulted = "false" => ~last.ret

C21_Witness ==
  /\ SetCalled
  /\ variant = VariantA
  /\ last.consulted = "override"
  /\ last.arg
  /\ last.threw
  /\ last.before = Str(<<"f","a","l","s","e">>)
  /\ env.MAINT_ENABLED = Str(<<"f","a","l","s","e">>)

\* C22: the status the handler works with is the error's own status when it
\* has one, otherwise the status code of the response; it is the status the
\* response is set to first.  An error without a status on a response whose
\* status code is 404 is dispatched to the strategy registered for 404 and
\* enters no shutdown.
C22_StatusFromErrorThenResponse ==
  last.fn = "errorHandler" =>
    LET ev == last.events
        expected == IF last.err.status # NoStatus THEN last.err.status
                    ELSE IF last.res.present THEN last.res.statusCode
                    ELSE NoStatus
    IN /\ last.status = expected
       /\ last.res.present =>
            \E i \in 1..Len(ev) :
              /\ ev[i].op = "res.status" /\ ev[i].code = expected
              /\ \A j \in 1..(i - 1) : ev[j].op \notin StatusOps
       /\ ( /\ last.err.status = NoStatus
            /\ last.res.present
            /\ last.res.statusCode = 404 )
            => /\ Count(ev, ShutdownOps) = 0
               /\ Count(ev, {"stream.on"}) = 0
                    \/ (variant = VariantB /\ 404 \in o.static
                          /\ 404 \notin o.handlers \cup o.views)
               /\ 404 \in o.handlers => CountFor(ev, "handler", 404) = 1
               /\ (404 \notin o.handlers /\ 404 \in o.views)
                    => CountFor(ev, "res.render", 404) = 1
               /\ (404 \notin o.handlers \cup o.views /\ 404 \in o.static)
                    => CountFor(ev, "sendFile", 404) = 1

C22_Witness ==
  /\ last.fn = "errorHandler"
  /\ last.err.status = NoStatus
  /\ last.res.present
  /\ last.res.statusCode = 404
  /\ last.status = 404
  /\ 404 \in o.handlers
  /\ o.server = "closable"
  /\ CountFor(last.events, "handler", 404) = 1
  /\ Count(last.events, ShutdownOps) = 0

\* The three classes of a handled error, by its derived status: the class
\* Maintenance as the claim states it (503 while the oracle reports enabled)
\* and as each variant decides it.
ClientError(l) == l.status >= 400 /\ l.status <= 499

MaintenanceClaimed(l) == l.status = 503 /\ l.oracle

MaintenanceDecided(l) ==
  l.status = 503 /\ (variant = VariantA => l.oracle)

\* The shutdown decision of a call fell on shutdown: the call entered the
\* Shutdown Coordinator once; a call of part_002 that streams a static file
\* leaves the decision to the 'end' listener it registered.
Deferred(l) == l.fn = "errorHandler" /\ Count(l.events, {"stream.on"}) = 1

ShutsDown(l) == Count(l.events, CloseEntryOps) = 1

Resumes(l) == Count(l.events, ShutdownOps) = 0

\* C23 (as claimed): every derived status, an absent one and those below
\* 400 or from 600 on included, is in exactly one class, and every status
\* that is neither in 400..499 nor a 503 under maintenance is a ServerError
\* whose handling invokes the Shutdown Coordinator.
C23_Original ==
  (Handled /\ ~Deferred(last)) =>
    /\ ~(ClientError(last) /\ MaintenanceClaimed(last))
    /\ (ClientError(last) \/ MaintenanceClaimed(last)) => Resumes(last)
    /\ ~(ClientError(last) \/ MaintenanceClaimed(last)) => ShutsDown(last)

\* C23 (amended): the classification is total with Maintenance as the
\* variant decides it: in src/error-handler.js a 503 while the handler's
\* enabled predicate reports enabled, in part_002 every 503.  Every other
\* status outside 400..499 (absent, below 400, from 600 on included) invokes
\* the Shutdown Coordinator once; a call of part_002 that streams a static
\* file invokes nothing itself and leaves the decision to its 'end' listener.
C23_TotalByVariant ==
  /\ (Handled /\ ~Deferred(last)) =>
       /\ ~(ClientError(last) /\ MaintenanceDecided(last))
       /\ (ClientError(last) \/ MaintenanceDecided(last)) => Resumes(last)
       /\ ~(ClientError(last) \/ MaintenanceDecided(last)) => ShutsDown(last)
  /\ Deferred(last) => (variant = VariantB /\ Resumes(last))

C23_Witness ==
  /\ last.fn = "errorHandler"
  /\ last.hasRes
  /\ last.status = 600
  /\ o.server = "closable"
  /\ ShutsDown(last)
  /\ exits # << >>

\* C24: called without a response, the handler renders nothing (no status
\* set, no header, no custom handler, view or static file, no default
\* responder) and takes the continue/shutdown decision on the derived
\* status directly: nothing at all for a status that continues, one entry
\* into the Shutdown Coordinator otherwise.
C24_NoResponseNoRendering ==
  (last.fn = "errorHandler" /\ ~last.hasRes) =>
    /\ \A i \in 1..Len(last.events) : last.events[i].op \in ShutdownOps
    /\ (ClientError(last) \/ MaintenanceDecided(last)) => last.events = << >>
    /\ ~(ClientError(last) \/ MaintenanceDecided(last)) => ShutsDown(last)

C24_Witness ==
  /\ last.fn = "errorHandler"
  /\ ~last.hasRes
  /\ last.status = 500
  /\ 500 \in o.handlers
  /\ DefaultKey \in o.views
  /\ ShutsDown(last)

\* The calls that write the response: the custom handler, a view render, a
\* static file stream, the body the default responder sends.
BodyOps == {"handler", "res.render", "sendFile", "res.send"}

\* The status code the response has when call j is made.
StatusInForce(ev, j) == FinalStatus(SubSeq(ev, 1, j - 1))

\* C25: in every branch that writes a response, the status code is set
\* before the body is written: when the custom handler, the view, the
\* static file or the default body is reached, the response already has the
\* status the branch answers with (the derived status, or 500 where the
\* default responder answers an error outside the continuing classes).
C25_StatusBeforeBody ==
  (last.fn = "errorHandler" /\ last.hasRes) =>
    /\ Count(last.events, BodyOps) >= 1
    /\ \A j \in 1..Len(last.events) :
         last.events[j].op \in BodyOps =>
           /\ Count(SubSeq(last.events, 1, j - 1), StatusOps) >= 1
           /\ StatusInForce(last.events, j)
                = IF Uncategorised(last) THEN 500 ELSE last.status

C25_Witness ==
  /\ Uncategorised(last)
  /\ last.status = 511
  /\ o.framework = "express"
  /\ \E j \in 1..Len(last.events) :
       /\ last.events[j].op = "res.send"
       /\ StatusInForce(last.events, j) = 500

\* The headers the maintenance middleware set on the response the handler
\* is called with.
MiddlewareHeaders(l) == IF "headers" \in DOMAIN l THEN l.headers ELSE NoOpt

\* The res.header calls of the last call that set Retry-After.
RetryAfterCalls(l) == {h \in HeaderCalls(l) : "RetryAfter" \in DOMAIN h}

\* C26: a response carries a Retry-After header set by the library (by the
\* maintenance middleware before it forwarded, or by the handler) only when
\* it is kept as a maintenance response: status 503, no shutdown.  No
\* response to a client error or to an error that shuts down carries one,
\* and the handler makes no header call on a response whose Retry-After the
\* middleware set.
C26_RetryAfterOnlyOnMaintenance ==
  /\ (last.fn = "errorHandler" /\ last.hasRes) =>
       /\ ( \/ RetryAfterCalls(last) # {}
            \/ "RetryAfter" \in DOMAIN MiddlewareHeaders(last) )
            => Maintained(last)
       /\ "RetryAfter" \in DOMAIN MiddlewareHeaders(last)
            => HeaderCalls(last) = {}
       /\ Cardinality(HeaderCalls(last)) <= 1
  /\ (last.fn = "errorHandler" /\ ~last.hasRes) => HeaderCalls(last) = {}
  /\ (last.fn = "middleware" /\ HeaderCalls(last) # {}) => last.status = 503

C26_Witness ==
  /\ Forwarded(last)
  /\ "RetryAfter" \in DOMAIN last.headers
  /\ last.headers.RetryAfter = Seconds(OverrideRetryAfter)
  /\ HeaderCalls(last) = {}
  /\ Maintained(last)

\* The call reached the default responder's own body: a response is
\* present, nothing is registered for the status, and there is neither a
\* default view nor a default static file.
DefaultBody(l) ==
  /\ l.fn = "errorHandler"
  /\ l.hasRes
  /\ l.status \notin o.handlers \cup o.views \cup o.static
  /\ DefaultKey \notin o.views \cup o.static

\* The representation the body is sent in: the one res.format selected;
\* restify sends the structured body without negotiation.
Negotiated(ev) ==
  LET idx == {i \in 1..Len(ev) : ev[i].op = "res.format"} IN
  IF idx = {} THEN "json" ELSE ev[CHOOSE i \in idx : TRUE].type

Bodies(ev) ==
  {ev[i].body : i \in {k \in 1..Len(ev) : ev[k].op = "res.send"}}

\* C27: without a default view and a default static file, the default
\* responder sends exactly one body per call.  In the JSON representation it
\* is {status, message}, the message being the error's message or, when
\* that is empty, the reason phrase of the status answered with, passed
\* through the configured serializer when there is one and unmodified
\* otherwise; in the text and HTML representations it is the message only,
\* and the configured serializer is not applied.
C27_DefaultBody ==
  DefaultBody(last) =>
    LET ev == last.events
        code == IF Uncategorised(last) THEN 500 ELSE last.status
        msg == IF last.err.message # "" THEN last.err.message
               ELSE statusCodes(code)
    IN /\ Count(ev, {"res.send"}) = 1
       /\ Count(ev, {"res.render", "sendFile", "handler"}) = 0
       /\ o.framework = "express" <=> Count(ev, {"res.format"}) = 1
       /\ Bodies(ev) =
            { IF Negotiated(ev) = "json"
              THEN [kind |-> IF o.serializer THEN "o.serializer"
                             ELSE "identity",
                    status |-> code, message |-> msg]
              ELSE [kind |-> "message", message |-> msg] }

C27_Witness ==
  /\ DefaultBody(last)
  /\ o.serializer
  /\ o.framework = "express"
  /\ last.status = 404
  /\ last.err.message = "Custom"
  /\ Bodies(last.events) =
       { [kind |-> "o.serializer", status |-> 404, message |-> "Custom"] }

\* C28 (as claimed): no invocation of the handler lets an exception reach
\* its caller, including one whose custom handler or view render fails or
\* whose error value is absent; each ends with a response produced (or
\* forgone, without a response) and the continue/shutdown decision made.
C28_NeverThrows ==
  (last.fn = "errorHandler" /\ "fail" \in DOMAIN last) =>
    /\ Count(last.events, {"throw"}) = 0
    /\ last.hasRes => Count(last.events, BodyOps) >= 1
    /\ ~(ClientError(last) \/ MaintenanceDecided(last))
         => Count(last.events, CloseEntryOps \cup {"stream.on"}) = 1

\* What the last call did is what the handler does for that error and
\* response with the configuration and the maintenance policy as they are
\* now, whatever the instance handled before.
Reproducible ==
  last.fn = "errorHandler" =>
    \E drain \in Drains(o), accept \in AcceptValues :
      last.events
        = returned(o, Arguments(o, last.err, last.res), accept, drain)

Selection(ev) ==
  SelectSeq(ev, LAMBDA e : e.op \in {"handler", "res.render", "sendFile",
                                     "res.statusCode="})

Decision(ev) ==
  LET d == SelectSeq(ev, LAMBDA e : e.op \in ShutdownOps \cup {"stream.on"})
  IN [i \in 1..Len(d) |-> d[i].op]

\* C30: with framework 'restify', the returned function called as
\* (req, res, route, err) does what errorHandler does when called with
\* (err, req, res) under the same configuration, and selects the same
\* strategy and takes the same shutdown decision as the handler of the
\* same configuration with framework 'express'.
C30_RestifyAdapterEquivalent ==
  (last.fn = "errorHandler" /\ o.framework = "restify") =>
    \E drain \in Drains(o) :
      LET canonical == errorHandler(o, last.err, last.res, "json", drain)
          express == errorHandler([o EXCEPT !.framework = "express"],
                                  last.err, last.res, "json", drain)
      IN /\ last.events = canonical
         /\ Selection(last.events) = Selection(express)
         /\ Decision(last.events) = Decision(express)

C30_Witness ==
  /\ last.fn = "errorHandler"
  /\ o.framework = "restify"
  /\ last.hasRes
  /\ last.status = 500
  /\ 500 \in o.handlers
  /\ CountFor(last.events, "handler", 500) = 1
  /\ ShutsDown(last)

\* C31: each call of a route that httpError(status, message) returned calls
\* next exactly once, with an error whose status is the given status and
\* whose message is the given message or, when none was given, the reason
\* phrase of the status, or 'Internal server error' when the status has
\* none.
C31_HttpErrorRoute ==
  last.fn = "httpErr" =>
    LET r == routes[last.route]
        e == last.events
    IN /\ Len(e) = 1
       /\ e[1].op = "next"
       /\ e[1].err.status = r.status
       /\ e[1].err.message =
            IF r.message # "" THEN r.message
            ELSE IF r.status \in {404, 405, 500} THEN statusCodes(r.status)
            ELSE "Internal server error"

C31_Witness ==
  /\ last.fn = "httpErr"
  /\ routes[last.route].status = 405
  /\ routes[last.route].message = ""
  /\ routes[last.route].calls = 2
  /\ last.events = << [op |-> "next",
                       err |-> Error(405, "Method Not Allowed")] >>

\* The value of an option of the handler: the one given to createHandler,
\* else the default.
Given(opt, key, default) ==
  IF key \in DOMAIN opt THEN opt[key] ELSE default

\* C32: the shutdown override is called with the handler's configuration,
\* whose exitStatus and timeout are the values given at construction (11 and
\* 4000) and the defaults 1 and 3000 where none was given; the timer the
\* library arms uses that timeout, and every process exit the library
\* performs uses that exit status.
C32_ConfiguredExitStatusAndTimeout ==
  /\ last = NoCall =>
       \A opt \in Options(variant) :
         o = createHandler(variant, opt) =>
           /\ o.exitStatus = Given(opt, "exitStatus", 1)
           /\ o.timeout = Given(opt, "timeout", 3000)
  /\ Handled =>
       \A i \in 1..Len(last.events) :
         LET e == last.events[i] IN
         /\ e.op = "o.shutdown" => e.o = o
         /\ e.op = "setTimeout" =>
              (e.delay = o.timeout /\ e.exitStatus = o.exitStatus)
         /\ e.op = "process.exit" => e.code = o.exitStatus
  /\ \A i \in 1..Len(exits) : exits[i].code = o.exitStatus

C32_Witness ==
  /\ last.fn = "errorHandler"
  /\ o.exitStatus = 11
  /\ o.timeout = 4000
  /\ \E i \in 1..Len(last.events) :
       /\ last.events[i].op = "o.shutdown"
       /\ last.events[i].o.exitStatus = 11
       /\ last.events[i].o.timeout = 4000

\* A status outside the continuing classes of both variants.
ServerClass(st) == ~(st >= 400 /\ st <= 499) /\ st # 503

\* A stream is open whose 'end' listener holds the shutdown of a server
\* error.
AwaitingEnd ==
  \E i \in 1..Len(streams) :
    streams[i].onEnd /\ ServerClass(streams[i].status)

\* C33 (as claimed): every server error eventually enters the Shutdown
\* Coordinator whichever strategy matched: in the call itself, or, where a
\* custom static file is streamed for it, eventually afterwards, even if
\* the stream fails or never emits 'end'.
C33_ServerErrorEventuallyShutsDown ==
  /\ []( (last.fn = "errorHandler" /\ ServerClass(last.status))
           => (CloseEntered(last) \/ Deferred(last)) )
  /\ AwaitingEnd ~>
       ( \/ last.fn = "stream.end" /\ ServerClass(last.status)
                                   /\ CloseEntered(last)
         \/ Terminated )

\* C34: for an error that shuts down and has a custom handler or a custom
\* view registered for its status, the custom strategy is called first and
\* the Shutdown Coordinator is entered once, after it; the default responder
\* is not called and the response keeps the error's own status.
C34_CustomStrategyThenShutdown ==
  ( /\ last.fn = "errorHandler"
    /\ last.hasRes
    /\ ~(ClientError(last) \/ MaintenanceDecided(last))
    /\ last.status \in o.handlers \cup o.views ) =>
    LET ev == last.events
        custom == IF last.status \in o.handlers THEN "handler"
                  ELSE "res.render"
    IN /\ CountFor(ev, custom, last.status) = 1
       /\ Count(ev, {"handler", "res.render"}) = 1
       /\ Count(ev, CloseEntryOps) = 1
       /\ \A i, j \in 1..Len(ev) :
            (ev[i].op = custom /\ ev[j].op \in ShutdownOps) => i < j
       /\ Count(ev, {"res.statusCode=", "res.format", "res.send",
                     "sendFile", "stream.on"}) = 0
       /\ FinalStatus(ev) = last.status
       /\ \A i \in 1..Len(ev) :
            ev[i].op \in StatusOps => ev[i].code = last.status

C34_Witness ==
  /\ last.fn = "errorHandler"
  /\ last.hasRes
  /\ last.status = 500
  /\ 500 \in o.views
  /\ 500 \notin o.handlers
  /\ DefaultKey \in o.views
  /\ o.server = "closable"
  /\ \E i, j \in 1..Len(last.events) :
       /\ i < j
       /\ last.events[i].op = "res.render"
       /\ last.events[i].key = 500
       /\ last.events[j].op = "server.close"
  /\ FinalStatus(last.events) = 500

\* What a step does to the timers: it leaves them, arms one more behind
\* those armed, or the one armed first fires and exits the process.
TimersKept ==
  \/ /\ timers' = timers
     /\ last' # last => Count(last'.events, {"setTimeout"}) = 0
  \/ /\ Len(timers') = Len(timers) + 1
     /\ SubSeq(timers', 1, Len(timers)) = timers
     /\ last'.fn \in {"errorHandler", "stream.end"}
     /\ Count(last'.events, {"setTimeout"}) = 1
  \/ /\ timers # << >>
     /\ timers' = Tail(timers)
     /\ exits = << >>
     /\ exits' = << processExit(Head(timers).exitStatus, "timer") >>

\* C35: a shutdown in progress is never cancelled or postponed.  A timer
\* once armed stays armed until it fires; a further error that shuts down
\* while timers are pending arms one more timer of its own; with timers
\* pending, the only exit is the firing of the timer armed first, which
\* does happen, and the process exits once.
C35_ShutdownNeverPostponed ==
  /\ [][TimersKept]_vars
  /\ [][(timers # << >> /\ exits' # exits) => timers' = Tail(timers)]_vars
  /\ [](Len(exits) <= 1)
  /\ (timers # << >>) ~> Terminated

C35_Witness ==
  /\ Len(timers) = 1
  /\ exits = << processExit(o.exitStatus, "timer") >>
  /\ last.fn = "errorHandler"
  /\ ~(ClientError(last) \/ MaintenanceDecided(last))
  /\ Count(last.events, {"setTimeout"}) = 1

\* What the predicate `fn' answers when the enabled flag is `flag' and an
\* overriding predicate answers `answer'; on the flag values used here
\* (unset, 'TRUE', 'false') the two default predicates agree.
EnabledWith(fn, flag, answer) ==
  CASE fn \in {"maintenanceState", "status"} -> flag = Str(<<"T","R","U","E">>)
    [] fn = "override" -> answer
    [] OTHER -> FALSE

C37_DefaultStaticShutsDownAtOnce ==
  ( /\ Uncategorised(last)
    /\ DefaultKey \in o.static
    /\ DefaultKey \notin o.views ) =>
    LET ev == last.events IN
    /\ CountFor(ev, "sendFile", DefaultKey) = 1
    /\ Count(ev, {"stream.on"}) = 0
    /\ Count(ev, CloseEntryOps) = 1
    /\ \A i, j \in 1..Len(ev) :
         (ev[i].op = "sendFile" /\ ev[j].op \in CloseEntryOps) => j = i + 1
    /\ \A i \in 1..Len(streams) :
         streams[i].key = DefaultKey => ~streams[i].onEnd

C37_Witness ==
  /\ Uncategorised(last)
  /\ last.status = 500
  /\ DefaultKey \in o.static
  /\ DefaultKey \notin o.views
  /\ o.server = "closable"
  /\ Len(streams) = 1
  /\ streams[1].key = DefaultKey
  /\ exits # << >>

====
